---- MODULE Spec2Model ----
(***************************************************************************)
(* Forum server: the express application (src/unnamed/part_001, index.js), *)
(* its data-access module (src/unnamed/part_000, dao.js), the user DAO     *)
(* (src/server/dao-user.js) and the schema and seed (src/server/db.sql).   *)
(* The state the React application keeps about the session                 *)
(* (src/client/src/App.jsx) is modelled for one browser.                   *)
(*                                                                         *)
(* A client is a cookie jar: it holds the cookie of one express-session    *)
(* session.  A handler whose database calls are separated by awaits, and   *)
(* whose decision rests on more than one call, is one action per call      *)
(* (comment creation); a handler that decides with a single SQL statement  *)
(* is one action.                                                          *)
(***************************************************************************)
EXTENDS Integers, Sequences, FiniteSets, Bags, TLC

VARIABLES
    posts,          \* table posts: set of rows [id, title, userId, maxComments]
    comments,       \* table comments: set of rows [id, text, date, userId, postId]
    flags,          \* table interesting_flags: bag of rows [userId, commentId]
    nextPostId,     \* AUTOINCREMENT sequence of posts
    nextCommentId,  \* AUTOINCREMENT sequence of comments
    clock,          \* DATETIME('now'), in seconds
    session,        \* per client, the session its cookie names: [sid, user, method]
    pending,        \* per client, its request that waits for a database callback
                    \* (comment creation, delete, login)
    accepted,       \* history: per client, the user whose one-time code was accepted
                    \* since the last successful password login
    replaced,       \* history: per client, the user and the method of the session
                    \* that the last successful password login found and replaced
    resp,           \* the last response sent: [c, op, id, status, body]
    app             \* the React application (App.jsx) in the browser of client c1:
                    \* its state [user, loggedIn, loggedInTotp]

vars == <<posts, comments, flags, nextPostId, nextCommentId, clock,
          session, pending, accepted, replaced, resp, app>>

history == <<accepted, replaced>>

dbVars == <<posts, comments, flags, nextPostId, nextCommentId>>

----------------------------------------------------------------------------
(* Bounds of the exploration *)

MaxPostId    == 10   \* last posts.id the model hands out
MaxCommentId == 29   \* last comments.id the model hands out
MaxClock     == 2    \* last second the model's clock reaches
MaxContentCommentId == 28   \* last comments.id handed out under SpecContent, SpecCreate

Clients == {"c1", "c2"}

----------------------------------------------------------------------------
(* Values *)

NoUser  == 0        \* SQL NULL / JavaScript null for a user id
NoLimit == -1       \* SQL NULL for posts.maxComments

\* users of db.sql: id, username, secret, admin
Users == 1 .. 5

username(u) ==
    CASE u = 1 -> "alberto" [] u = 2 -> "bob" [] u = 3 -> "carl"
      [] u = 4 -> "diana" [] OTHER -> "emma"

secret(u) == IF u \in {1, 2} THEN "LXBSMDTMSP2I5XFXIYRGFVWSFI" ELSE ""

admin(u) == IF u \in {1, 2} THEN 1 ELSE 0

salt(u) ==
    CASE u = 1 -> "123348dusd437840" [] u = 2 -> "7732qweydg3sd637"
      [] u = 3 -> "wgb32sge2sh7hse7" [] u = 4 -> "safd6523tdwt82et"
      [] OTHER -> "ad37JHUW38wj2833"

\* crypto.scrypt(password, salt, 32): an injective pairing
scrypt(password, s) == <<password, s>>

\* the password column: the hash of the user's password (README, Users Credentials)
password(u) ==
    scrypt(CASE u = 1 -> "albertoAdmin" [] u = 2 -> "bobAdmin"
             [] u = 3 -> "carlNoAdmin" [] u = 4 -> "dianaNoAdmin"
             [] OTHER -> "emmaNoAdmin", salt(u))

----------------------------------------------------------------------------
(* Request inputs *)

UsernameInputs == {"alberto", "emma", " emma ", "<emma>", "zoe", "al"}
PasswordInputs == {"albertoAdmin", "emmaNoAdmin", "short"}

\* the code field of POST /api/login-totp; NoCode is a body without the field
NoCode == "<undefined>"
\* "#654321" is the JSON number 654321, every other input is a JSON string
CodeInputs == {NoCode, "", "abc123", "12345", "1234567", "+654321", "6543.21",
               " 654321 ", "654321", "000000", "#654321"}

isString(s) == s # "#654321"

\* validator.trim on the inputs above
trim(s) ==
    CASE s = " emma " -> "emma" [] s = " 654321 " -> "654321"
      [] s = " Hello " -> "Hello" [] OTHER -> s

\* validator.escape replaces <, >, &, ', ", / and more by HTML entities
escape(s) == IF s = "<emma>" THEN "&lt;emma&gt;" ELSE s

\* string length of the inputs above
length(s) ==
    CASE s = "alberto" -> 7 [] s = "emma" -> 4 [] s = " emma " -> 6 [] s = "<emma>" -> 6
      [] s = "zoe" -> 3 [] s = "al" -> 2
      [] s = "albertoAdmin" -> 12 [] s = "emmaNoAdmin" -> 11 [] s = "short" -> 5
      [] s = "hi" -> 2 [] s = "<b>hi</b>" -> 9 [] s = "<i></i>" -> 7
      [] s = "Hello" -> 5 [] s = " Hello " -> 7
      [] s = "Bio-inspiration: Learning from Nature" -> 37
      [] OTHER -> 0

\* validator.isLength(s, {min, max})
isLength(s, min, max) == length(s) >= min /\ length(s) <= max

\* validator.isNumeric: ^[+-]?([0-9]*[.])?[0-9]+$
isNumeric(s) == s \in {"12345", "1234567", "+654321", "6543.21", "654321", "000000"}

----------------------------------------------------------------------------
(* dao-user.js *)

\* getUserById: the users table is never written, a stored id is always found
getUserById(id) == id

\* a lookup that returns the row of the username whatever the password
getUserAnyPassword(name, pw) ==
    IF \E u \in Users : username(u) = name
    THEN CHOOSE v \in Users : username(v) = name
    ELSE NoUser

\* getUser: the row of the username, when the scrypt hash of the password with the
\* row's salt equals the stored hash; false (NoUser) otherwise
getUser(name, pw) ==
    IF \E u \in Users : username(u) = name
    THEN LET u == CHOOSE v \in Users : username(v) = name
         IN  IF scrypt(pw, salt(u)) = password(u) THEN u ELSE NoUser
    ELSE NoUser

----------------------------------------------------------------------------
(* Sessions (express-session + passport) *)

NoSid == 0
Sids == 1 .. (Cardinality(Clients) + 1)

\* the state of a client whose cookie names no stored session
NoSession == [sid |-> NoSid, user |-> NoUser, method |-> ""]

\* express-session generates a session id that no live session has
FreshSid == CHOOSE n \in Sids :
                /\ \A d \in Clients : session[d].sid # n
                /\ \A m \in Sids : (\A d \in Clients : session[d].sid # m) => n <= m

\* req.isAuthenticated(): the session carries a user
isAuthenticated(c) == session[c].user # NoUser

\* a middleware that lets every request through
isLoggedInAlways(c) == TRUE

\* if (req.isAuthenticated()) return next(); else 401
isLoggedIn(c) == isAuthenticated(c)

\* a login that keeps the session and what it holds (keepSessionInfo)
LoginKeepingSession(old, user) == [old EXCEPT !.user = user]

\* req.login(user, cb): passport regenerates the session (the old one is destroyed,
\* a new one with a new id is created) and stores the serialized user id in it
LoginSession(old, user) == [sid |-> FreshSid, user |-> user, method |-> ""]

\* a logout that only drops the second factor
LogoutKeepingUser(old) == [old EXCEPT !.method = ""]

\* req.logout(cb): passport removes the user from the session and regenerates it;
\* the new session is empty and is not stored (saveUninitialized: false)
LogoutSession(old) == NoSession

\* clientUserInfo(req)
clientUserInfo(s) ==
    [id |-> s.user, username |-> username(s.user), admin |-> admin(s.user),
     canDoTotp |-> (secret(s.user) # ""), isTotp |-> (s.method = "totp")]

\* base32.decode(user.secret): an injective image; the empty secret gives the empty key
base32decode(s) == IF s = "" THEN <<>> ELSE <<"key", s>>

\* the one-time codes notp accepts for a key at the time of the request
currentCodes(key) == IF key = <<>> THEN {"328482"} ELSE {"654321"}

\* passport-totp: totp.verify(value, key, ...)
totpVerify(value, key) == value \in currentCodes(key)

Respond(c, op, id, status, body) ==
    resp' = [c |-> c, op |-> op, id |-> id, status |-> status, body |-> body]

\* POST /api/sessions
Login(c, u, p) ==
    LET name == escape(trim(u))
        pw   == trim(p)
        user == IF ~isLength(name, 3, 20) \/ ~(length(pw) >= 6)
                THEN NoUser
                ELSE getUser(name, pw)
    IN  /\ IF user = NoUser
           THEN /\ Respond(c, "login", 0, 401, "Incorrect username or password.")
                /\ UNCHANGED <<session, history>>
           ELSE /\ session' = [session EXCEPT ![c] = LoginSession(session[c], user)]
                /\ accepted' = [accepted EXCEPT ![c] = NoUser]
                /\ replaced' = [replaced EXCEPT ![c] =
                       [user |-> session[c].user, method |-> session[c].method]]
                /\ Respond(c, "login", 0, 200, clientUserInfo(session'[c]))
        /\ UNCHANGED <<dbVars, clock, pending>>

\* a failure that logs the user out
failedSessionLoggedOut(old) == NoSession

\* the strategy calls fail(): passport sets the status 401 and ends the response;
\* it neither logs the user out nor writes to req.session
failedSession(old) == old

\* a pre-check that validates the code before it looks at the user
totpPrecheckCodeFirst(user, code) ==
    CASE code = NoCode \/ code = "" -> 422
      [] ~isString(code) -> 503
      [] ~isNumeric(trim(code)) -> 422
      [] admin(user) = 0 -> 403
      [] secret(user) = "" -> 403
      [] OTHER -> 0

\* The checks of the first middleware of POST /api/login-totp, in the order of the
\* code: the status it answers, or 0 when it calls next()
totpPrecheck(user, code) ==
    CASE admin(user) = 0 -> 403
      [] secret(user) = "" -> 403
      [] code = NoCode \/ code = "" -> 422
      [] ~isString(code) -> 503          \* code.trim is not a function: caught, 503
      [] ~isNumeric(trim(code)) -> 422
      [] OTHER -> 0

\* POST /api/login-totp
LoginTotp(c, code) ==
    /\ IF ~isLoggedIn(c)
       THEN /\ Respond(c, "loginTotp", 0, 401, "Not authenticated")
            /\ UNCHANGED <<session, history>>
       ELSE LET user == getUserById(session[c].user)
                pre  == totpPrecheck(user, code)
            IN  IF pre # 0
                THEN /\ Respond(c, "loginTotp", 0, pre, "")
                     /\ UNCHANGED <<session, history>>
                ELSE IF ~totpVerify(trim(code), base32decode(secret(user)))
                THEN \* passport.authenticate("totp") fails: 401 Unauthorized
                     /\ Respond(c, "loginTotp", 0, 401, "Unauthorized")
                     /\ session' = [session EXCEPT ![c] = failedSession(session[c])]
                     /\ UNCHANGED history
                ELSE \* success: passport logs the user in again, the handler then
                     \* sets req.session.method = "totp"
                     /\ session' = [session EXCEPT ![c] =
                            [LoginSession(session[c], user) EXCEPT !.method = "totp"]]
                     /\ accepted' = [accepted EXCEPT ![c] = user]
                     /\ UNCHANGED replaced
                     /\ Respond(c, "loginTotp", 0, 200, "authorized")
    /\ UNCHANGED <<dbVars, clock, pending>>

\* DELETE /api/sessions/current
Logout(c) ==
    /\ IF ~isLoggedIn(c)
       THEN /\ Respond(c, "logout", 0, 401, "Not authenticated")
            /\ UNCHANGED session
       ELSE /\ session' = [session EXCEPT ![c] = LogoutSession(session[c])]
            /\ Respond(c, "logout", 0, 200, "")
    /\ UNCHANGED <<dbVars, clock, pending, history>>

\* GET /api/sessions/current
CurrentSession(c) ==
    /\ IF isAuthenticated(c)
       THEN Respond(c, "currentSession", 0, 200, clientUserInfo(session[c]))
       ELSE Respond(c, "currentSession", 0, 401, "Unauthenticated user!")
    /\ UNCHANGED <<dbVars, clock, pending, session, history>>

----------------------------------------------------------------------------
(* dao.js *)

Undefined == -2     \* a JavaScript argument that was not passed

\* DOMPurify.sanitize(text, { ALLOWED_TAGS: [] }) on the text inputs: tags are
\* removed, their text content is kept
sanitize(t) ==
    CASE t = "<b>hi</b>" -> "hi" [] t = "<i></i>" -> "" [] OTHER -> t

TextInputs == {"<b>hi</b>", "<i></i>", ""}

\* the flags table restricted to the rows of S, each as often as the table holds it
flagRows(S) == [f \in S \cap DOMAIN flags |-> flags[f]]

\* SELECT COUNT(*) FROM interesting_flags WHERE commentId = ?
interestingCount(commentId) ==
    BagCardinality(flagRows({f \in DOMAIN flags : f.commentId = commentId}))

\* the rows of a post's comments
commentsOf(postId) == {r \in comments : r.postId = postId}

\* getPost: the row, or the error object (here NoPost) when no row has the id
NoPost == [error |-> "Post not found."]
getPost(id) ==
    IF \E r \in posts : r.id = id
    THEN LET r == CHOOSE q \in posts : q.id = id
         IN  [id |-> r.id, title |-> r.title, maxComments |-> r.maxComments,
              userId |-> r.userId, commentCount |-> Cardinality(commentsOf(r.id))]
    ELSE NoPost

\* a comments query that does not filter anonymous requesters
commentRowsUnfiltered(postId, userId) == commentsOf(postId)

\* The WHERE clause of getCommentsByPostId: the post's comments and, only when
\* userId === null, "AND comments.userId IS NULL"
commentRows(postId, userId) ==
    {r \in commentsOf(postId) : userId = NoUser => r.userId = NoUser}

\* the object getCommentsByPostId maps a row to
commentObject(r, userId) ==
    [id |-> r.id, text |-> r.text, date |-> r.date,
     username |-> IF r.userId = NoUser THEN "" ELSE username(r.userId),
     userId |-> r.userId,
     interestingCount |-> interestingCount(r.id),
     markedByMe |-> (userId \notin {NoUser, Undefined}
                     /\ BagIn([userId |-> userId, commentId |-> r.id], flags))]

\* a query without ORDER BY: the rows in any order
orderUnspecified(rows) ==
    {s \in [1 .. Cardinality(rows) -> rows] :
        \A i, j \in 1 .. Cardinality(rows) : i # j => s[i] # s[j]}

\* ORDER BY comments.date DESC: every order of the rows that is descending by
\* date; rows of equal date come in an order SQLite does not specify
orderByDateDesc(rows) ==
    {s \in [1 .. Cardinality(rows) -> rows] :
        /\ \A i, j \in 1 .. Cardinality(rows) : i # j => s[i] # s[j]
        /\ \A i, j \in 1 .. Cardinality(rows) : i < j => s[i].date >= s[j].date}

\* getCommentsByPostId(postId, userId): the lists it may resolve to
getCommentsByPostId(postId, userId) ==
    {[i \in 1 .. Len(s) |-> commentObject(s[i], userId)] :
        s \in orderByDateDesc(commentRows(postId, userId))}

\* an UPDATE whose owner test also lets through the comments without owner
updateCommentRowsOwnerless(commentId, userId, isAdminTotp) ==
    {r \in comments : r.id = commentId /\
        (isAdminTotp \/ r.userId = userId \/ r.userId = NoUser)}

\* the rows "UPDATE comments SET text = ? WHERE id = ? [AND userId = ?]" changes
updateCommentRows(commentId, userId, isAdminTotp) ==
    {r \in comments : r.id = commentId /\ (isAdminTotp \/ r.userId = userId)}

\* a DELETE that never tests the owner
deleteCommentRowsAnyOwner(commentId, userId, isAdminTotp) ==
    {r \in comments : r.id = commentId}

\* the rows "DELETE FROM comments WHERE id = ? [AND userId = ?]" deletes
deleteCommentRows(commentId, userId, isAdminTotp) ==
    {r \in comments : r.id = commentId /\ (isAdminTotp \/ r.userId = userId)}

\* the rows "DELETE FROM posts WHERE id = ? [AND userId = ?]" deletes
deletePostRows(postId, userId, isAdminTotp) ==
    {r \in posts : r.id = postId /\ (isAdminTotp \/ r.userId = userId)}

\* a delete that leaves the flags of the deleted comments behind
flagsWithoutCascade(gone) == flags

\* ON DELETE CASCADE of interesting_flags.commentId (PRAGMA foreign_keys = ON)
flagsWithout(gone) ==
    flagRows({f \in DOMAIN flags : \A r \in gone : f.commentId # r.id})

\* an insert of a flag on a table without its primary key
markErrorNoKey(commentId, userId) ==
    IF ~(\E r \in comments : r.id = commentId)
    THEN "SQLITE_CONSTRAINT: FOREIGN KEY constraint failed"
    ELSE ""

\* the error of "INSERT INTO interesting_flags", "" when the row is inserted:
\* the primary key (userId, commentId), then the foreign key to comments
markError(commentId, userId) ==
    CASE BagIn([userId |-> userId, commentId |-> commentId], flags) ->
            "SQLITE_CONSTRAINT: UNIQUE constraint failed: interesting_flags.userId, interesting_flags.commentId"
      [] ~(\E r \in comments : r.id = commentId) ->
            "SQLITE_CONSTRAINT: FOREIGN KEY constraint failed"
      [] OTHER -> ""

\* an unmark that toggles: it flags the comment when the user has no flag on it
unmarkToggling(commentId, userId) ==
    IF BagIn([userId |-> userId, commentId |-> commentId], flags)
    THEN flagRows(DOMAIN flags \ {[userId |-> userId, commentId |-> commentId]})
    ELSE flags (+) SetToBag({[userId |-> userId, commentId |-> commentId]})

\* unmarkCommentAsInteresting: the table after "DELETE FROM interesting_flags WHERE
\* commentId = ? AND userId = ?"; it resolves to true whatever the number of rows
unmarkCommentAsInteresting(commentId, userId) ==
    flagRows(DOMAIN flags \ {[userId |-> userId, commentId |-> commentId]})

\* an insert of a comment with the foreign keys not enforced
createCommentErrorNoForeignKey(postId) == ""

\* the error of "INSERT INTO comments", "" when the row is inserted: the foreign
\* key to posts
createCommentError(postId) ==
    IF \E r \in posts : r.id = postId
    THEN ""
    ELSE "SQLITE_CONSTRAINT: FOREIGN KEY constraint failed"

\* an insert of a post on a table whose title is not UNIQUE
createPostErrorNoUnique(title) == ""

\* the error of "INSERT INTO posts", "" when the row is inserted: title is UNIQUE
createPostError(title) ==
    IF \E r \in posts : r.title = title
    THEN "SQLITE_CONSTRAINT: UNIQUE constraint failed: posts.title"
    ELSE ""

----------------------------------------------------------------------------
(* index.js: content endpoints *)

\* 0 is not a valid id; 8 and 24 are ids no row has; the other ids are those of the
\* initial rows and those handed out since
PostIdInputs    == {0, 8, 9} \cup (10 .. nextPostId - 1)
CommentIdInputs == {0, 24, 25, 26, 27} \cup (28 .. nextCommentId - 1)
\* the ids of mark and unmark: an invalid id, an id no comment has, a comment with
\* an owner, the anonymous comment emma has flagged, and the new comments
FlagIdInputs    == {0, 24, 25, 27} \cup (28 .. nextCommentId - 1)
TitleInputs     == {"Bio-inspiration: Learning from Nature", " Hello ", "<i></i>"}
PostTextInputs  == {"<b>hi</b>", ""}
MaxCommentsInputs == {NoLimit, 0, 1}

\* check("id").isInt({ min: 1 })
validId(id) == id >= 1

\* check("text").isString().isLength({ min: 1 }).custom(sanitized text not empty)
validText(t) == length(t) >= 1 /\ length(sanitize(t)) # 0

\* check("title"): length 1..100 and sanitized, trimmed title not empty
validTitle(t) == isLength(t, 1, 100) /\ length(trim(sanitize(t))) # 0

\* an elevation test that forgets the second factor
isAdminOnly(c) == admin(session[c].user) = 1

\* const isAdminWithTotp = req.session.method === "totp" && req.user.admin
isAdminWithTotp(c) == session[c].method = "totp" /\ admin(session[c].user) = 1

\* a requester that is never identified
requesterNull(c) == NoUser

\* const userId = req.user ? parseInt(req.user.id) : null
requester(c) == IF session[c].user # NoUser THEN session[c].user ELSE NoUser

\* sanitizeComment: the fields sent to the client
sanitizeComment(o) ==
    [id |-> o.id, text |-> sanitize(o.text), username |-> o.username, date |-> o.date,
     interestingCount |-> o.interestingCount, markedByMe |-> o.markedByMe]

\* GET /api/posts/:id/comments
ListComments(c, postId) ==
    /\ IF ~validId(postId)
       THEN Respond(c, "listComments", postId, 422, <<>>)
       ELSE \E list \in getCommentsByPostId(postId, requester(c)) :
                Respond(c, "listComments", postId, 200,
                        [i \in 1 .. Len(list) |-> sanitizeComment(list[i])])
    /\ UNCHANGED <<dbVars, clock, session, pending, history>>

\* POST /api/posts (dao.createPost: the INSERT and the SELECT of the new row)
CreatePost(c, title, text, maxComments) ==
    /\ IF ~isLoggedIn(c)
       THEN /\ Respond(c, "createPost", 0, 401, "Not authenticated")
            /\ UNCHANGED <<posts, nextPostId>>
       ELSE IF ~validTitle(title) \/ ~validText(text)
       THEN /\ Respond(c, "createPost", 0, 422, "")
            /\ UNCHANGED <<posts, nextPostId>>
       ELSE LET t == sanitize(trim(title))
            IN  IF createPostError(t) # ""
                THEN \* err.message.includes("UNIQUE constraint failed: posts.title")
                     /\ Respond(c, "createPost", 0, 409, "Title already used")
                     /\ UNCHANGED <<posts, nextPostId>>
                ELSE /\ nextPostId <= MaxPostId
                     /\ posts' = posts \cup
                            {[id |-> nextPostId, title |-> t,
                              userId |-> session[c].user, maxComments |-> maxComments]}
                     /\ nextPostId' = nextPostId + 1
                     /\ Respond(c, "createPost", nextPostId, 201,
                                [id |-> nextPostId, title |-> t,
                                 maxComments |-> maxComments,
                                 username |-> username(session[c].user),
                                 commentCount |-> 0])
    /\ UNCHANGED <<comments, flags, nextCommentId, clock, session, pending, history>>

\* no comment-creation request of the client is in flight
Idle == [pc |-> "idle", postId |-> 0, userId |-> NoUser, text |-> "",
         maxComments |-> NoLimit]

InFlight == Cardinality({c \in Clients : pending[c].pc # "idle"})

\* a limit test that is off by one
limitReachedOffByOne(maxComments, count) ==
    maxComments # NoLimit /\ count > maxComments

\* post.maxComments !== null && currentComments.length >= post.maxComments
limitReached(maxComments, count) ==
    maxComments # NoLimit /\ count >= maxComments

\* POST /api/posts/:id/comments, up to "await dao.getPost(postId)"
CommentGetPost(c, postId, text) ==
    /\ pending[c].pc = "idle"
    /\ nextCommentId + InFlight <= MaxCommentId
    /\ IF ~validId(postId) \/ ~validText(text)
       THEN /\ Respond(c, "createComment", postId, 422, "")
            /\ UNCHANGED pending
       ELSE LET post == getPost(postId)
            IN  IF post = NoPost
                THEN /\ Respond(c, "createComment", postId, 404, "Post not found.")
                     /\ UNCHANGED pending
                ELSE /\ pending' = [pending EXCEPT ![c] =
                            [pc |-> "count", postId |-> postId, userId |-> requester(c),
                             text |-> sanitize(text), maxComments |-> post.maxComments]]
                     /\ UNCHANGED resp
    /\ UNCHANGED <<dbVars, clock, session, history>>

\* ... "await dao.getCommentsByPostId(postId)" and the limit test
CommentCount(c) ==
    /\ pending[c].pc = "count"
    /\ \E currentComments \in getCommentsByPostId(pending[c].postId, Undefined) :
          IF limitReached(pending[c].maxComments, Len(currentComments))
          THEN /\ Respond(c, "createComment", pending[c].postId, 403,
                          "Maximum number of comments reached for this post")
               /\ pending' = [pending EXCEPT ![c] = Idle]
          ELSE /\ pending' = [pending EXCEPT ![c].pc = "insert"]
               /\ UNCHANGED resp
    /\ UNCHANGED <<dbVars, clock, session, history>>

\* ... "await dao.createComment(comment)": the INSERT (its foreign key to posts
\* is enforced) and the SELECT of the new row
CommentInsert(c) ==
    /\ pending[c].pc = "insert"
    /\ IF createCommentError(pending[c].postId) # ""
       THEN /\ Respond(c, "createComment", pending[c].postId, 503,
                       "Database error during comment creation")
            /\ UNCHANGED <<comments, nextCommentId>>
       ELSE /\ comments' = comments \cup
                   {[id |-> nextCommentId, text |-> pending[c].text, date |-> clock,
                     userId |-> pending[c].userId, postId |-> pending[c].postId]}
            /\ nextCommentId' = nextCommentId + 1
            /\ Respond(c, "createComment", pending[c].postId, 201,
                       [id |-> nextCommentId, text |-> sanitize(pending[c].text),
                        username |-> IF pending[c].userId = NoUser THEN ""
                                     ELSE username(pending[c].userId),
                        date |-> clock, interestingCount |-> 0,
                        markedByMe |-> FALSE])
    /\ pending' = [pending EXCEPT ![c] = Idle]
    /\ UNCHANGED <<posts, flags, nextPostId, clock, session, history>>

\* PUT /api/comments/:id
UpdateComment(c, id, text) ==
    /\ IF ~isLoggedIn(c)
       THEN /\ Respond(c, "updateComment", id, 401, "Not authenticated")
            /\ UNCHANGED comments
       ELSE IF ~validId(id) \/ ~validText(text)
       THEN /\ Respond(c, "updateComment", id, 422, "")
            /\ UNCHANGED comments
       ELSE LET userId == getUserById(session[c].user)
                rows   == updateCommentRows(id, userId, isAdminWithTotp(c))
            IN  IF rows = {}
                THEN /\ Respond(c, "updateComment", id, 403,
                                "Comment not found or not owned by user")
                     /\ UNCHANGED comments
                ELSE /\ comments' = (comments \ rows) \cup
                            {[r EXCEPT !.text = sanitize(text)] : r \in rows}
                     /\ Respond(c, "updateComment", id, 200, "")
    /\ UNCHANGED <<posts, flags, nextPostId, nextCommentId, clock, session,
                   pending, history>>

\* DELETE /api/comments/:id
DeleteComment(c, id) ==
    /\ IF ~isLoggedIn(c)
       THEN /\ Respond(c, "deleteComment", id, 401, "Not authenticated")
            /\ UNCHANGED <<comments, flags>>
       ELSE IF ~validId(id)
       THEN /\ Respond(c, "deleteComment", id, 422, "")
            /\ UNCHANGED <<comments, flags>>
       ELSE LET userId == getUserById(session[c].user)
                rows   == deleteCommentRows(id, userId, isAdminWithTotp(c))
            IN  IF rows = {}
                THEN /\ Respond(c, "deleteComment", id, 403,
                                "Not allowed or comment not found")
                     /\ UNCHANGED <<comments, flags>>
                ELSE /\ comments' = comments \ rows
                     /\ flags' = flagsWithout(rows)
                     /\ Respond(c, "deleteComment", id, 200, "")
    /\ UNCHANGED <<posts, nextPostId, nextCommentId, clock, session, pending, history>>

\* DELETE /api/posts/:id; the comments of the post and their flags go with it
\* (ON DELETE CASCADE)
DeletePost(c, id) ==
    /\ IF ~isLoggedIn(c)
       THEN /\ Respond(c, "deletePost", id, 401, "Not authenticated")
            /\ UNCHANGED <<posts, comments, flags>>
       ELSE IF ~validId(id)
       THEN /\ Respond(c, "deletePost", id, 422, "")
            /\ UNCHANGED <<posts, comments, flags>>
       ELSE LET userId == getUserById(session[c].user)
                rows   == deletePostRows(id, userId, isAdminWithTotp(c))
                gone   == {r \in comments : \E q \in rows : r.postId = q.id}
            IN  IF rows = {}
                THEN /\ Respond(c, "deletePost", id, 403,
                                "Not allowed or post not found")
                     /\ UNCHANGED <<posts, comments, flags>>
                ELSE /\ posts' = posts \ rows
                     /\ comments' = comments \ gone
                     /\ flags' = flagsWithout(gone)
                     /\ Respond(c, "deletePost", id, 200, "")
    /\ UNCHANGED <<nextPostId, nextCommentId, clock, session, pending, history>>

\* POST /api/comments/:id/interesting
MarkInteresting(c, id) ==
    /\ IF ~isLoggedIn(c)
       THEN /\ Respond(c, "mark", id, 401, "Not authenticated")
            /\ UNCHANGED flags
       ELSE IF ~validId(id)
       THEN /\ Respond(c, "mark", id, 422, "")
            /\ UNCHANGED flags
       ELSE LET userId == getUserById(session[c].user)
                err    == markError(id, userId)
            IN  IF err = ""
                THEN /\ flags' = flags (+) SetToBag({[userId |-> userId, commentId |-> id]})
                     /\ Respond(c, "mark", id, 200, "")
                ELSE /\ UNCHANGED flags
                     /\ IF err = "Already marked"
                        THEN Respond(c, "mark", id, 409,
                                "Comment already marked as interesting by this user")
                        ELSE Respond(c, "mark", id, 503,
                                "Database error while marking comment as interesting")
    /\ UNCHANGED <<posts, comments, nextPostId, nextCommentId, clock, session,
                   pending, history>>

\* DELETE /api/comments/:id/interesting
UnmarkInteresting(c, id) ==
    /\ IF ~isLoggedIn(c)
       THEN /\ Respond(c, "unmark", id, 401, "Not authenticated")
            /\ UNCHANGED flags
       ELSE IF ~validId(id)
       THEN /\ Respond(c, "unmark", id, 422, "")
            /\ UNCHANGED flags
       ELSE /\ flags' = unmarkCommentAsInteresting(id, getUserById(session[c].user))
            /\ Respond(c, "unmark", id, 200, "")
    /\ UNCHANGED <<posts, comments, nextPostId, nextCommentId, clock, session,
                   pending, history>>

\* a second passes: DATETIME('now') advances
Tick ==
    /\ clock < MaxClock
    /\ clock' = clock + 1
    /\ UNCHANGED <<dbVars, session, pending, history, resp>>

----------------------------------------------------------------------------
(* The delete handlers, one action per await: requests of other clients run
   between the user lookup and the DELETE statement *)

\* a count of changed rows that never is 0
changesAtLeastOne(rows) == IF rows = {} THEN 1 ELSE Cardinality(rows)

\* this.changes of the DELETE statement
changes(rows) == Cardinality(rows)

\* DELETE /api/comments/:id and DELETE /api/posts/:id, up to
\* "await userDao.getUserById(userId)"; req.user and req.session are the ones
\* loaded when the request arrived
DeleteStart(c, op, id) ==
    /\ pending[c].pc = "idle"
    /\ IF ~isLoggedIn(c)
       THEN /\ Respond(c, op, id, 401, "Not authenticated")
            /\ UNCHANGED pending
       ELSE IF ~validId(id)
       THEN /\ Respond(c, op, id, 422, "")
            /\ UNCHANGED pending
       ELSE /\ pending' = [pending EXCEPT ![c] =
                   [pc |-> op, id |-> id, userId |-> getUserById(session[c].user),
                    isAdminWithTotp |-> isAdminWithTotp(c)]]
            /\ UNCHANGED resp
    /\ UNCHANGED <<dbVars, clock, session, history>>

\* ... "await dao.deleteComment(commentId, userId, isAdminWithTotp)" and the answer
DeleteCommentRun(c) ==
    /\ pending[c].pc = "deleteComment"
    /\ LET id   == pending[c].id
           rows == deleteCommentRows(id, pending[c].userId, pending[c].isAdminWithTotp)
       IN  IF changes(rows) = 0
           THEN /\ Respond(c, "deleteComment", id, 403,
                           "Not allowed or comment not found")
                /\ UNCHANGED <<comments, flags>>
           ELSE /\ comments' = comments \ rows
                /\ flags' = flagsWithout(rows)
                /\ Respond(c, "deleteComment", id, 200, "")
    /\ pending' = [pending EXCEPT ![c] = Idle]
    /\ UNCHANGED <<posts, nextPostId, nextCommentId, clock, session, history>>

\* ... "await dao.deletePost(postId, userId, isAdminWithTotp)" and the answer
DeletePostRun(c) ==
    /\ pending[c].pc = "deletePost"
    /\ LET id   == pending[c].id
           rows == deletePostRows(id, pending[c].userId, pending[c].isAdminWithTotp)
           gone == {r \in comments : \E q \in rows : r.postId = q.id}
       IN  IF changes(rows) = 0
           THEN /\ Respond(c, "deletePost", id, 403, "Not allowed or post not found")
                /\ UNCHANGED <<posts, comments, flags>>
           ELSE /\ posts' = posts \ rows
                /\ comments' = comments \ gone
                /\ flags' = flagsWithout(gone)
                /\ Respond(c, "deletePost", id, 200, "")
    /\ pending' = [pending EXCEPT ![c] = Idle]
    /\ UNCHANGED <<nextPostId, nextCommentId, clock, session, history>>

----------------------------------------------------------------------------
(* The React application of client c1 (App.jsx): each action is a request of the
   application, the answer of the server and the state update of the callback
   that receives the answer *)

\* useState(undefined), useState(false), useState(false) of App
AppInit == [user |-> NoUser, loggedIn |-> FALSE, loggedInTotp |-> FALSE]

\* handleError(err): on "Not authenticated", setUser(undefined), setLoggedIn(false)
handleError(a, msg) ==
    IF msg = "Not authenticated"
    THEN [a EXCEPT !.user = NoUser, !.loggedIn = FALSE]
    ELSE a

\* LoginForm (shown by LoginWithTotp when not loggedIn): API.logIn, then
\* loginSuccessful(user): setUser(user), setLoggedIn(true)
AppLogin(u, p) ==
    /\ ~app.loggedIn
    /\ Login("c1", u, p)
    /\ app' = IF resp'.status = 200
              THEN [app EXCEPT !.user = resp'.body.id, !.loggedIn = TRUE]
              ELSE app

\* TotpForm (shown when loggedIn, user.canDoTotp and not loggedInTotp):
\* API.totpVerify, then totpSuccessful: setLoggedInTotp(true)
AppTotp(code) ==
    /\ app.loggedIn /\ secret(app.user) # "" /\ ~app.loggedInTotp
    /\ LoginTotp("c1", code)
    /\ app' = IF resp'.status = 200 THEN [app EXCEPT !.loggedInTotp = TRUE] ELSE app

\* the Logout button (shown when user is set): doLogOut
AppLogout ==
    /\ app.user # NoUser
    /\ Logout("c1")
    /\ app' = AppInit

\* a page load: a new App with its initial state, then checkAuth
AppReload ==
    /\ CurrentSession("c1")
    /\ app' = IF resp'.status = 200
              THEN [user |-> resp'.body.id, loggedIn |-> TRUE,
                    loggedInTotp |-> resp'.body.isTotp]
              ELSE handleError(AppInit, resp'.body)

\* the Delete button of a comment (shown when user is set and the comment is the
\* user's or loggedInTotp): deleteComment, whose catch calls handleError
AppDeleteComment(id) ==
    /\ app.user # NoUser
    /\ \E r \in comments : r.id = id /\ (r.userId = app.user \/ app.loggedInTotp)
    /\ DeleteComment("c1", id)
    /\ app' = IF resp'.status = 200 THEN app ELSE handleError(app, resp'.body)

\* another tab of the same browser, which sends the same cookie, logs out
OtherTabLogout ==
    /\ Logout("c1")
    /\ UNCHANGED app

----------------------------------------------------------------------------
(* Requests during which a database call fails (sqlite calls back with err) *)

\* GET /api/posts/:id/comments when dao.getCommentsByPostId rejects: the catch
\* block of the handler answers 500
ListCommentsFails(c, postId) ==
    /\ validId(postId)
    /\ Respond(c, "listComments", postId, 500, "Failed to load comments")
    /\ UNCHANGED <<dbVars, clock, session, pending, history>>

\* PUT /api/comments/:id when dao.updateComment rejects: the catch block answers
\* 503; the UPDATE that failed wrote nothing
UpdateCommentFails(c, id, text) ==
    /\ isLoggedIn(c)
    /\ validId(id) /\ validText(text)
    /\ Respond(c, "updateComment", id, 503, "Database error during comment update")
    /\ UNCHANGED <<dbVars, clock, session, pending, history>>

\* the state of a client whose login request waits for the verify callback
LoginWaiting == [Idle EXCEPT !.pc = "login"]

\* POST /api/sessions when userDao.getUser rejects: the promise has a then() and no
\* catch(), done is never called, no middleware after passport.authenticate runs
\* and nothing is sent; the request stays open
LoginGetUserFails(c, u, p) ==
    /\ pending[c].pc = "idle"
    /\ isLength(escape(trim(u)), 3, 20) /\ length(trim(p)) >= 6
    /\ pending' = [pending EXCEPT ![c] = LoginWaiting]
    /\ UNCHANGED <<dbVars, clock, session, history, resp>>

----------------------------------------------------------------------------
(* Initial state: db.sql after an elevated administrator has deleted posts 1..8  *)
(* (their comments and flags go with them, ON DELETE CASCADE).  What is left is   *)
(* post 9 of emma with its comments 25 (alberto), 26 (carl), 27 (anonymous) and   *)
(* the flag of emma on comment 27; the AUTOINCREMENT sequences stand at 10 and    *)
(* 28.  Dates are in the order of the seed (26 < 25 < 27), before second 0 of the *)
(* clock.  No session exists.                                                     *)

Init ==
    /\ posts = {[id |-> 9, title |-> "Bio-inspiration: Learning from Nature",
                 userId |-> 5, maxComments |-> 4]}
    /\ comments = {[id |-> 25, text |-> "seed", date |-> -2, userId |-> 1, postId |-> 9],
                   [id |-> 26, text |-> "seed", date |-> -3, userId |-> 3, postId |-> 9],
                   [id |-> 27, text |-> "seed", date |-> -1, userId |-> NoUser, postId |-> 9]}
    /\ flags = SetToBag({[userId |-> 5, commentId |-> 27]})
    /\ nextPostId = 10
    /\ nextCommentId = 28
    /\ clock = 0
    /\ session = [c \in Clients |-> NoSession]
    /\ pending = [c \in Clients |-> Idle]
    /\ accepted = [c \in Clients |-> NoUser]
    /\ replaced = [c \in Clients |-> [user |-> NoUser, method |-> ""]]
    /\ resp = [c |-> "c1", op |-> "none", id |-> 0, status |-> 0, body |-> ""]
    /\ app = AppInit

----------------------------------------------------------------------------
(* Specifications *)

\* A handler of the server leaves the state of the application in the browser
\* (app) as it is.

\* the authentication endpoints, for the clients of CS
SessionStep(CS) ==
    \E c \in CS :
        \/ \E u \in UsernameInputs, p \in PasswordInputs : Login(c, u, p) /\ UNCHANGED app
        \/ \E code \in CodeInputs : LoginTotp(c, code) /\ UNCHANGED app
        \/ Logout(c) /\ UNCHANGED app
        \/ CurrentSession(c) /\ UNCHANGED app

\* edit and delete
MutationStep(CS) ==
    \E c \in CS :
        \/ \E id \in CommentIdInputs, t \in TextInputs : UpdateComment(c, id, t) /\ UNCHANGED app
        \/ \E id \in CommentIdInputs : DeleteComment(c, id) /\ UNCHANGED app
        \/ \E id \in PostIdInputs : DeletePost(c, id) /\ UNCHANGED app

\* comment creation, one action per database call
CommentStep(CS) ==
    \E c \in CS :
        \/ \E id \in PostIdInputs, t \in TextInputs : CommentGetPost(c, id, t) /\ UNCHANGED app
        \/ CommentCount(c) /\ UNCHANGED app
        \/ CommentInsert(c) /\ UNCHANGED app

ListStep(CS) == \E c \in CS, id \in PostIdInputs : ListComments(c, id) /\ UNCHANGED app

PostStep(CS) ==
    \E c \in CS, title \in TitleInputs, t \in PostTextInputs, m \in MaxCommentsInputs :
        CreatePost(c, title, t, m) /\ UNCHANGED app

FlagStep(CS) ==
    \E c \in CS, id \in FlagIdInputs :
        \/ MarkInteresting(c, id) /\ UNCHANGED app
        \/ UnmarkInteresting(c, id) /\ UNCHANGED app

\* the whole server
Next ==
    \/ SessionStep(Clients)
    \/ MutationStep(Clients)
    \/ CommentStep(Clients)
    \/ ListStep(Clients)
    \/ PostStep(Clients)
    \/ FlagStep(Clients)
    \/ Tick /\ UNCHANGED app

Spec == Init /\ [][Next]_vars

\* The session state machine alone: both clients log in, complete the second
\* factor and log out; no request touches the database.
NextSession == SessionStep(Clients)

SpecSession == Init /\ [][NextSession]_vars

\* Sessions and the authorization of edit and delete: one client sends every
\* request (a decision reads the requester's session and the rows only); no
\* request creates a row.
OneClient == {"c1"}

NextAuth == SessionStep(OneClient) \/ MutationStep(OneClient) \/ ListStep(OneClient)

SpecAuth == Init /\ [][NextAuth]_vars

\* The authentication endpoints for one client: what a login, a second-factor
\* request or a logout answers and does to the session of the client that sent it.
NextLogin == SessionStep(OneClient)

SpecLogin == Init /\ [][NextLogin]_vars

\* Comment creation and its limit: both clients create comments, and the three
\* database calls of a comment creation interleave with the calls of the other
\* client's requests; one of the clients may log in as emma, and creates posts.
AuthorLogin == \E c \in OneClient : Login(c, "emma", "emmaNoAdmin") /\ UNCHANGED app

NextComments == AuthorLogin \/ PostStep(OneClient) \/ CommentStep(Clients)

SpecComments == Init /\ [][NextComments]_vars

\* Flags, cascades and foreign keys: one client, who may log in as emma, creates
\* posts and comments, marks and unmarks comments, and deletes comments and
\* posts, also while its own comment creation is between two database calls.
DeleteStep(CS) ==
    \E c \in CS :
        \/ \E id \in CommentIdInputs : DeleteComment(c, id) /\ UNCHANGED app
        \/ \E id \in PostIdInputs : DeletePost(c, id) /\ UNCHANGED app

\* one well-formed post and one well-formed comment text
ContentPost == \E c \in OneClient : CreatePost(c, " Hello ", "<b>hi</b>", NoLimit) /\ UNCHANGED app

ContentComment ==
    \E c \in OneClient :
        \/ /\ nextCommentId <= MaxContentCommentId
           /\ \E id \in PostIdInputs : CommentGetPost(c, id, "<b>hi</b>") /\ UNCHANGED app
        \/ CommentCount(c) /\ UNCHANGED app
        \/ CommentInsert(c) /\ UNCHANGED app

NextContent ==
    \/ AuthorLogin
    \/ ContentPost
    \/ ContentComment
    \/ FlagStep(OneClient)
    \/ DeleteStep(OneClient)

SpecContent == Init /\ [][NextContent]_vars

\* Creation and its owner: one client logs in as alberto or emma, completes the
\* second factor and logs out, and creates posts and comments in every state of
\* its session.
CreateSession ==
    \E c \in OneClient :
        \/ Login(c, "alberto", "albertoAdmin") /\ UNCHANGED app
        \/ Login(c, "emma", "emmaNoAdmin") /\ UNCHANGED app
        \/ LoginTotp(c, "654321") /\ UNCHANGED app
        \/ Logout(c) /\ UNCHANGED app

\* posts of every title, with a well-formed text
CreatePosts ==
    \E c \in OneClient, title \in TitleInputs, m \in MaxCommentsInputs :
        CreatePost(c, title, "<b>hi</b>", m) /\ UNCHANGED app

NextCreate ==
    \/ CreateSession
    \/ CreatePosts
    \/ ContentComment

SpecCreate == Init /\ [][NextCreate]_vars

\* Database failures: one client, who may log in as emma, lists and creates
\* comments, and the database call of a list, of an edit or of a login may fail.
\* The callbacks of the database calls of a comment creation are scheduled by the
\* event loop: a request that waits for one is eventually continued.
FailureStep ==
    \E c \in OneClient :
        \/ \E id \in PostIdInputs : ListCommentsFails(c, id) /\ UNCHANGED app
        \/ \E id \in CommentIdInputs : UpdateCommentFails(c, id, "<b>hi</b>") /\ UNCHANGED app
        \/ LoginGetUserFails(c, "emma", "emmaNoAdmin") /\ UNCHANGED app

NextFailure ==
    \/ AuthorLogin
    \/ ContentComment
    \/ ListStep(OneClient)
    \/ FailureStep

SpecFailure ==
    /\ Init /\ [][NextFailure]_vars
    /\ \A c \in OneClient : /\ WF_vars(CommentCount(c) /\ UNCHANGED app)
                            /\ WF_vars(CommentInsert(c) /\ UNCHANGED app)


\* Concurrent deletes: each client logs in once, the first as alberto, who may
\* complete the second factor, the second as alberto or as emma; both send delete
\* requests for comment 25 (of alberto) and for post 9 (of emma), and the two
\* database calls of a request interleave with those of the other client's.
DeleteSession ==
    \/ /\ ~isAuthenticated("c1") /\ Login("c1", "alberto", "albertoAdmin") /\ UNCHANGED app
    \/ /\ ~isAuthenticated("c2")
       /\ \/ Login("c2", "alberto", "albertoAdmin") /\ UNCHANGED app
          \/ Login("c2", "emma", "emmaNoAdmin") /\ UNCHANGED app
    \/ /\ session["c1"].method # "totp" /\ LoginTotp("c1", "654321") /\ UNCHANGED app

DeleteRequests ==
    \E c \in Clients :
        \/ DeleteStart(c, "deleteComment", 25) /\ UNCHANGED app
        \/ DeleteStart(c, "deletePost", 9) /\ UNCHANGED app
        \/ DeleteCommentRun(c) /\ UNCHANGED app
        \/ DeletePostRun(c) /\ UNCHANGED app

NextDelete == DeleteSession \/ DeleteRequests

SpecDelete == Init /\ [][NextDelete]_vars


\* The application and the server: the user of client c1 logs in as alberto or as
\* emma, sends codes, logs out, reloads the page and deletes comments, and may log
\* out in another tab.
AppStep ==
    \/ \E u \in {"alberto", "emma"}, p \in {"albertoAdmin", "emmaNoAdmin"} : AppLogin(u, p)
    \/ \E code \in {"654321", "000000"} : AppTotp(code)
    \/ AppLogout
    \/ AppReload
    \/ \E id \in {25, 27} : AppDeleteComment(id)

NextClient == AppStep \/ OtherTabLogout

SpecClient == Init /\ [][NextClient]_vars


----------------------------------------------------------------------------
(* Properties *)

\* the session of the client has completed the second factor
elevated(c) == session[c].method = "totp"

commentWithId(id) == CHOOSE r \in comments : r.id = id
postWithId(id)    == CHOOSE r \in posts : r.id = id

\* the policy of the specification: elevated, or owner of the resource
permitted(c, owner) == elevated(c) \/ owner = session[c].user

contentUnchanged == UNCHANGED <<posts, comments, flags>>

\* C1: a well-formed edit-comment, delete-comment or delete-post request of an
\* authenticated session on an existing resource is applied (200) if and only if
\* the session is elevated or the requester owns the resource; otherwise it is
\* answered 403 and posts, comments and flags are unchanged.
C1_MutationIffPermitted ==
    [][\A c \in Clients : isAuthenticated(c) =>
        /\ \A id \in CommentIdInputs, t \in TextInputs :
             ( /\ resp'.op = "updateComment" /\ validText(t)
               /\ \E r \in comments : r.id = id
               /\ UpdateComment(c, id, t) )
             => LET r == commentWithId(id)
                IN  IF permitted(c, r.userId)
                    THEN /\ resp'.status = 200
                         /\ comments' = (comments \ {r})
                                \cup {[r EXCEPT !.text = sanitize(t)]}
                         /\ UNCHANGED <<posts, flags>>
                    ELSE resp'.status = 403 /\ contentUnchanged
        /\ \A id \in CommentIdInputs :
             ( /\ resp'.op = "deleteComment"
               /\ \E r \in comments : r.id = id
               /\ DeleteComment(c, id) )
             => LET r == commentWithId(id)
                IN  IF permitted(c, r.userId)
                    THEN /\ resp'.status = 200
                         /\ comments' = comments \ {r}
                         /\ flags' = flagRows({f \in DOMAIN flags : f.commentId # id})
                         /\ UNCHANGED posts
                    ELSE resp'.status = 403 /\ contentUnchanged
        /\ \A id \in PostIdInputs :
             ( /\ resp'.op = "deletePost"
               /\ \E r \in posts : r.id = id
               /\ DeletePost(c, id) )
             => LET r == postWithId(id)
                IN  IF permitted(c, r.userId)
                    THEN /\ resp'.status = 200
                         /\ posts' = posts \ {r}
                         /\ comments' = {q \in comments : q.postId # id}
                         /\ flags' = flagRows({f \in DOMAIN flags :
                                \E q \in comments' : q.id = f.commentId})
                    ELSE resp'.status = 403 /\ contentUnchanged
      ]_vars

\* C1 witness: an elevated session that owns neither has deleted carl's comment 26,
\* and the post of emma is still there
C1_Witness ==
    /\ resp.op = "deleteComment" /\ resp.id = 26 /\ resp.status = 200
    /\ elevated(resp.c) /\ session[resp.c].user = 1
    /\ ~(\E r \in comments : r.id = 26)

\* C2: a session is elevated only if its user is an administrator with a second-factor
\* secret whose one-time code was accepted after the password login that bound
\* the session to that user.
C2_ElevatedOnlyAfterCode ==
    \A c \in Clients : elevated(c) =>
        /\ session[c].user # NoUser
        /\ admin(session[c].user) = 1
        /\ secret(session[c].user) # ""
        /\ accepted[c] = session[c].user

\* C2 witness: an elevated session that replaced a session of another user
C2_Witness == \E c \in Clients : elevated(c) /\ replaced[c].user = 5

\* C3: an administrator whose session has not completed the second factor is denied
\* (403, nothing changes) every well-formed edit-comment, delete-comment and
\* delete-post on a resource it does not own.
C3_PasswordOnlyAdminIsStandard ==
    [][\A c \in Clients :
        (isAuthenticated(c) /\ admin(session[c].user) = 1 /\ ~elevated(c)) =>
        /\ \A id \in CommentIdInputs, t \in TextInputs :
             ( /\ resp'.op = "updateComment" /\ validText(t)
               /\ \E r \in comments : r.id = id /\ r.userId # session[c].user
               /\ UpdateComment(c, id, t) )
             => resp'.status = 403 /\ contentUnchanged
        /\ \A id \in CommentIdInputs :
             ( /\ resp'.op = "deleteComment"
               /\ \E r \in comments : r.id = id /\ r.userId # session[c].user
               /\ DeleteComment(c, id) )
             => resp'.status = 403 /\ contentUnchanged
        /\ \A id \in PostIdInputs :
             ( /\ resp'.op = "deletePost"
               /\ \E r \in posts : r.id = id /\ r.userId # session[c].user
               /\ DeletePost(c, id) )
             => resp'.status = 403 /\ contentUnchanged
      ]_vars

\* C3 witness: alberto, password only, was denied the deletion of the post of emma
C3_Witness ==
    /\ resp.op = "deletePost" /\ resp.id = 9 /\ resp.status = 403
    /\ session[resp.c].user = 1 /\ ~elevated(resp.c)
    /\ \E r \in posts : r.id = 9

\* the user of the session may not complete the second factor
noSecondFactor(c) ==
    isAuthenticated(c) /\ (admin(session[c].user) = 0 \/ secret(session[c].user) = "")

\* C4: completeSecondFactor from a session whose user is no administrator or has no
\* secret is answered 403 whatever the code, and as long as the session exists it
\* stays bound to its user and not elevated.
C4_NoSecondFactorForNonAdmin ==
    [][\A c \in Clients : noSecondFactor(c) =>
        /\ \A code \in CodeInputs :
             (resp'.op = "loginTotp" /\ LoginTotp(c, code))
             => resp'.status = 403 /\ session' = session
        /\ session'[c].sid = session[c].sid => session'[c] = session[c]
        /\ ~elevated(c)
      ]_vars

\* C4 witness: emma was answered 403 by the second-factor endpoint
C4_Witness ==
    /\ resp.op = "loginTotp" /\ resp.status = 403
    /\ session[resp.c].user = 5 /\ ~elevated(resp.c)

authRequiredOps == {"loginTotp", "logout", "createPost", "updateComment",
                    "deleteComment", "deletePost", "mark", "unmark"}

\* the ids of the comments of a list response
listedIds(body) == {body[i].id : i \in 1 .. Len(body)}

\* C5: logout from a password-authenticated or elevated session leaves the client
\* without a session; from then on current-session and every endpoint that requires
\* authentication answer 401 and change nothing, a comment list holds only the
\* anonymous comments, and only a successful password login authenticates the
\* client again.
C5_LogoutMakesAnonymous ==
    [][\A c \in Clients :
        /\ (isAuthenticated(c) /\ resp'.op = "logout" /\ Logout(c))
              => resp'.status = 200 /\ session'[c] = NoSession
        /\ ~isAuthenticated(c) =>
              /\ (resp'.c = c /\ resp' # resp /\ resp'.op \in authRequiredOps)
                    => /\ resp'.status = 401
                       /\ UNCHANGED <<dbVars, session>>
              /\ (resp'.op = "currentSession" /\ CurrentSession(c))
                    => resp'.status = 401
              /\ \A id \in PostIdInputs :
                    (resp'.op = "listComments" /\ validId(id) /\ ListComments(c, id))
                    => listedIds(resp'.body)
                         = {r.id : r \in {q \in commentsOf(id) : q.userId = NoUser}}
              /\ isAuthenticated(c)'
                    => resp'.op = "login" /\ resp'.status = 200 /\ resp'.c = c
      ]_vars

\* C5 witness: after the logout of a session that had completed the second factor,
\* current-session answered 401
C5_Witness ==
    /\ resp.op = "currentSession" /\ resp.status = 401
    /\ accepted[resp.c] = 1 /\ session[resp.c] = NoSession

\* C6: a session stays bound to the user it was created for: a login with the valid
\* credentials of another user creates a new session (a new id) and destroys the
\* session the request came with.
C6_SessionFixedToUser ==
    [][\A c \in Clients : isAuthenticated(c) =>
        /\ session'[c].sid = session[c].sid => session'[c].user = session[c].user
        /\ \A u \in UsernameInputs, p \in PasswordInputs :
             (resp'.op = "login" /\ resp'.status = 200 /\ Login(c, u, p))
             => /\ session'[c].sid # session[c].sid
                /\ \A d \in Clients : session'[d].sid # session[c].sid
      ]_vars

\* C6 witness: a login of emma arrived on a session bound to alberto
C6_Witness ==
    \E c \in Clients :
        /\ resp.op = "login" /\ resp.status = 200 /\ resp.c = c
        /\ replaced[c].user = 1 /\ session[c].user = 5

\* C7: the comment list of a post answered to a requester without a session holds
\* exactly the post's comments that have no owner; the list answered to an
\* authenticated requester, standard or elevated, holds exactly all comments of
\* the post; each comment once.
C7_ListVisibility ==
    [][\A c \in Clients, id \in PostIdInputs :
        (resp'.op = "listComments" /\ validId(id) /\ ListComments(c, id))
        => /\ resp'.status = 200
           /\ Len(resp'.body) = Cardinality(listedIds(resp'.body))
           /\ listedIds(resp'.body) =
                IF isAuthenticated(c)
                THEN {r.id : r \in {q \in comments : q.postId = id}}
                ELSE {r.id : r \in {q \in comments :
                                        q.postId = id /\ q.userId = NoUser}}
      ]_vars

\* C7 witness: a requester without a session was answered the one anonymous comment
\* of post 9 while the post had three comments
C7_Witness ==
    /\ resp.op = "listComments" /\ resp.status = 200 /\ resp.id = 9
    /\ ~isAuthenticated(resp.c)
    /\ listedIds(resp.body) = {27}
    /\ Cardinality(commentsOf(9)) = 3

\* the ids of the comments of a post that getCommentsByPostId gives a requester
visibleTo(postId, userId) == {r.id : r \in commentRows(postId, userId)}

\* C8 as claimed: for every post, the comments visible to an anonymous requester
\* are a strict subset of those visible to any authenticated user.
C8_StrictSubset ==
    \A p \in posts, u \in Users :
        /\ visibleTo(p.id, NoUser) \subseteq visibleTo(p.id, u)
        /\ visibleTo(p.id, NoUser) # visibleTo(p.id, u)

\* C8 amended: for every post, the comments visible to an anonymous requester are a
\* subset of those visible to any authenticated user; the two sets are equal
\* exactly when no comment of the post has an owner.
C8_SubsetStrictIffAuthored ==
    \A p \in posts, u \in Users :
        /\ visibleTo(p.id, NoUser) \subseteq visibleTo(p.id, u)
        /\ (visibleTo(p.id, NoUser) = visibleTo(p.id, u))
              <=> (\A r \in commentsOf(p.id) : r.userId = NoUser)

\* C8 witness: a post whose comments are all anonymous, so that an anonymous
\* requester sees what an authenticated one sees
C8_Witness ==
    \E p \in posts :
        /\ commentsOf(p.id) # {}
        /\ \A r \in commentsOf(p.id) : r.userId = NoUser
        /\ visibleTo(p.id, NoUser) = visibleTo(p.id, 1)

\* C9: the limit test of a comment creation on an existing post answers 403, and
\* inserts nothing, exactly when the post's maxComments is not null and the number
\* of all its comments, anonymous and authored, is at or above it; otherwise the
\* request goes on to the insert, which adds one comment to the post (201).
\* (A request leaves pc = "count" by CommentCount only, pc = "insert" by
\* CommentInsert only.)
C9_LimitRejectsIffReached ==
    [][\A c \in Clients :
        /\ ( /\ pending[c].pc = "count" /\ pending'[c] # pending[c]
             /\ \E r \in posts : r.id = pending[c].postId )
           => LET p == postWithId(pending[c].postId)
                  n == Cardinality({r \in comments : r.postId = p.id})
              IN  IF p.maxComments # NoLimit /\ n >= p.maxComments
                  THEN /\ resp'.op = "createComment" /\ resp'.status = 403
                       /\ resp'.c = c
                       /\ pending'[c] = Idle
                       /\ comments' = comments
                  ELSE /\ pending'[c].pc = "insert"
                       /\ comments' = comments /\ resp' = resp
        /\ ( /\ pending[c].pc = "insert" /\ pending'[c] # pending[c]
             /\ \E r \in posts : r.id = pending[c].postId )
           => /\ resp'.op = "createComment" /\ resp'.status = 201
              /\ \E r \in comments' \ comments :
                    /\ comments' = comments \cup {r}
                    /\ r.postId = pending[c].postId
                    /\ r.userId = pending[c].userId
      ]_vars

\* C9 witness: post 9 (maxComments 4) received its fourth comment and the next
\* creation was answered 403
C9_Witness ==
    /\ resp.op = "createComment" /\ resp.status = 403 /\ resp.id = 9
    /\ Cardinality(commentsOf(9)) = 4

\* C10 as claimed: no post with a non-null maxComments ever has more comments than
\* maxComments, whatever the interleaving of the comment creations.
C10_LimitNeverExceeded ==
    \A p \in posts :
        p.maxComments # NoLimit => Cardinality(commentsOf(p.id)) <= p.maxComments

\* the flag of the user of client c on the comment
flagOf(c, commentId) == [userId |-> session[c].user, commentId |-> commentId]

\* the step is the answer to a request op of a well-formed id by an authenticated
\* client (a request that is answered the same as the one before it leaves the
\* state unchanged)
answers(op) ==
    /\ resp'.op = op /\ resp' # resp
    /\ isAuthenticated(resp'.c) /\ validId(resp'.id)

\* C11 as claimed: a mark request of an authenticated user on a comment the user
\* has already marked is answered 409, and the flags are left as they were.
C11_DuplicateMarkIsConflict ==
    [][(answers("mark") /\ BagIn(flagOf(resp'.c, resp'.id), flags))
        => /\ resp'.status = 409
           /\ flags' = flags
      ]_vars

\* C12: the flags table holds no (user, comment) pair more than once.
C12_OneFlagPerPair == \A f \in DOMAIN flags : CopiesIn(f, flags) = 1

\* C12 witness: a mark of a pair the table holds was refused, and the table holds
\* the pair once
C12_Witness ==
    /\ resp.op = "mark" /\ resp.status \notin {200, 401, 422}
    /\ isAuthenticated(resp.c)
    /\ CopiesIn(flagOf(resp.c, resp.id), flags) = 1

\* C13: an unmark request of an authenticated user with a well-formed id is answered
\* 200 and removes the user's flag on the comment and nothing else; when the user
\* has no flag on the comment, the flags and the flag count of every comment are
\* as before (so a second unmark changes nothing).
C13_UnmarkIdempotent ==
    [][answers("unmark")
        => /\ resp'.status = 200
           /\ ~BagIn(flagOf(resp'.c, resp'.id), flags')
           /\ \A f \in (DOMAIN flags \cup DOMAIN flags') \ {flagOf(resp'.c, resp'.id)} :
                 CopiesIn(f, flags') = CopiesIn(f, flags)
           /\ ~BagIn(flagOf(resp'.c, resp'.id), flags)
                 => /\ flags' = flags
                    /\ \A r \in comments : interestingCount(r.id)' = interestingCount(r.id)
      ]_vars

\* C13 witness: emma has unmarked comment 25, which she had not flagged; the flags
\* are those of the initial state
C13_Witness ==
    /\ resp.op = "unmark" /\ resp.status = 200 /\ resp.id = 25
    /\ isAuthenticated(resp.c)
    /\ flags = SetToBag({[userId |-> 5, commentId |-> 27]})

\* C14: after a delete-post answered 200 the post is not found, none of its
\* comments and no flag on any of them remains, and the comments of the other
\* posts and the flags on them are as before.
C14_DeletePostCascades ==
    [][( /\ resp'.op = "deletePost" /\ resp'.status = 200
         /\ \E p \in posts : p.id = resp'.id )
        => LET id   == resp'.id
               gone == {r.id : r \in {q \in comments : q.postId = id}}
           IN  /\ (getPost(resp.id) = NoPost)'
               /\ posts' = {p \in posts : p.id # id}
               /\ comments' = {r \in comments : r.postId # id}
               /\ \A f \in DOMAIN flags' : f.commentId \notin gone
               /\ \A f \in DOMAIN flags :
                     f.commentId \notin gone => CopiesIn(f, flags') = CopiesIn(f, flags)
               /\ DOMAIN flags' \subseteq DOMAIN flags
      ]_vars

\* C14 witness: post 9 was deleted with its three comments and the flag on comment
\* 27, and the comment of another post and the flag on it are still there
C14_Witness ==
    /\ resp.op = "deletePost" /\ resp.status = 200 /\ resp.id = 9
    /\ \E r \in comments : r.postId # 9 /\ \E f \in DOMAIN flags : f.commentId = r.id

\* C15: every comment's post exists, and every flag is on an existing comment, by
\* an existing user.
C15_ReferentialIntegrity ==
    /\ \A r \in comments : \E p \in posts : p.id = r.postId
    /\ \A f \in DOMAIN flags :
          /\ \E r \in comments : r.id = f.commentId
          /\ f.userId \in Users

\* C15 witness: the post of a comment creation was deleted between the request's
\* count and its insert, and the insert failed
C15_Witness ==
    /\ resp.op = "createComment" /\ resp.status = 503
    /\ ~(\E p \in posts : p.id = resp.id)

\* C16: a create-post request is answered 201 only to an authenticated client,
\* standard or elevated, and then adds one post, owned by the user of the client's
\* session; a client without an authenticated session is answered 401 and the
\* posts are unchanged.
C16_CreatePostNeedsSession ==
    [][(resp'.op = "createPost" /\ resp' # resp)
        => /\ ~isAuthenticated(resp'.c) => (resp'.status = 401 /\ posts' = posts)
           /\ resp'.status = 201
                 => /\ isAuthenticated(resp'.c)
                    /\ \E p \in posts' \ posts :
                          /\ posts' = posts \cup {p}
                          /\ p.id = resp'.id
                          /\ p.userId = session[resp'.c].user
           /\ resp'.status # 201 => posts' = posts
      ]_vars

\* C16 witness: an elevated session has created post 10, which alberto owns
C16_Witness ==
    /\ resp.op = "createPost" /\ resp.status = 201
    /\ elevated(resp.c)
    /\ \E p \in posts : p.id = resp.id /\ p.userId = session[resp.c].user

\* C17: a comment creation is open to every client; the comment it inserts is
\* owned by the user of the client's session at the time of the request, and has
\* no owner when the client had no authenticated session then.
C17_CommentOwnerIsRequester ==
    [][\A c \in OneClient :
        /\ (pending[c].pc = "idle" /\ pending'[c].pc = "count")
              => pending'[c].userId = session[c].user
        /\ (pending[c].pc = "insert" /\ pending'[c] # pending[c]
            /\ \E p \in posts : p.id = pending[c].postId)
              => /\ resp'.status = 201
                 /\ \E r \in comments' \ comments :
                       /\ comments' = comments \cup {r}
                       /\ r.userId = pending[c].userId
        /\ (resp'.op = "createComment" /\ resp' # resp) => resp'.status # 401
      ]_vars

\* C17 witness: after alberto's elevated session was logged out, the client has
\* created comment 28, which has no owner
C17_Witness ==
    /\ resp.op = "createComment" /\ resp.status = 201
    /\ ~isAuthenticated(resp.c) /\ accepted[resp.c] = 1
    /\ \E r \in comments : r.id = 28 /\ r.userId = NoUser

\* C18: no two posts have the same title; a well-formed create-post request of an
\* authenticated client whose trimmed, sanitized title is the title of a post is
\* answered 409 and leaves the posts unchanged.
C18_TitlesUnique ==
    /\ [](\A p, q \in posts : p.title = q.title => p = q)
    /\ [][(resp'.op = "createPost" /\ resp' # resp)
            => \A c \in OneClient, title \in TitleInputs, m \in MaxCommentsInputs :
                  ( /\ isAuthenticated(c) /\ validTitle(title)
                    /\ \E p \in posts : p.title = sanitize(trim(title))
                    /\ CreatePost(c, title, "<b>hi</b>", m) )
                  => (resp'.status = 409 /\ posts' = posts)
        ]_vars

\* C18 witness: a second request for a title was answered 409 with the title held
\* by one post
C18_Witness ==
    /\ resp.op = "createPost" /\ resp.status = 409
    /\ Cardinality({p \in posts : p.title = "Hello"}) = 1

\* the resource an edit or delete request names exists
resourceExists(op, id) ==
    IF op = "deletePost" THEN \E p \in posts : p.id = id
                         ELSE \E r \in comments : r.id = id

\* the owner of the resource an edit or delete request names
resourceOwner(op, id) ==
    IF op = "deletePost" THEN postWithId(id).userId ELSE commentWithId(id).userId

\* C19 as claimed: when an edit-comment, delete-comment or delete-post request of
\* a client was denied on an existing resource (the client neither elevated nor
\* its owner), the answer to the client's next request of the same kind on an id
\* that no resource has differs from that denial in status or body.
C19_DenialDiffersFromAbsent ==
    [][( /\ resp.op \in {"updateComment", "deleteComment", "deletePost"}
         /\ resp'.op = resp.op /\ resp'.c = resp.c /\ resp'.id # resp.id
         /\ session' = session /\ isAuthenticated(resp.c)
         /\ validId(resp.id) /\ resp.status # 422
         /\ resourceExists(resp.op, resp.id)
         /\ ~permitted(resp.c, resourceOwner(resp.op, resp.id))
         /\ validId(resp'.id) /\ resp'.status # 422
         /\ ~resourceExists(resp.op, resp'.id) )
        => <<resp'.status, resp'.body>> # <<resp.status, resp.body>>
      ]_vars

\* a code of exactly six digits
sixDigits(code) == code \in {"654321", "000000"}

\* C20 as claimed: a second-factor request of a logged-in admin with a secret
\* whose code, trimmed, is not exactly six digits is answered by the pre-check
\* (422, or its error answer), before the one-time code is verified.
C20_VerifyOnlySixDigits ==
    [][resp'.op = "loginTotp"
        => \A c \in Clients, code \in CodeInputs :
              ( /\ isLoggedIn(c)
                /\ admin(session[c].user) = 1 /\ secret(session[c].user) # ""
                /\ ~sixDigits(trim(code))
                /\ LoginTotp(c, code) )
              => /\ totpPrecheck(session[c].user, code) # 0
                 /\ resp'.status = totpPrecheck(session[c].user, code)
      ]_vars

\* the stored user whose username and salted password hash the credentials match
matching(u, p) ==
    {v \in Users : /\ username(v) = escape(trim(u))
                   /\ password(v) = scrypt(trim(p), salt(v))}

\* C21: a login binds the session to a user only when the username exists and the
\* password matches that user's stored salted hash, and then to that user; every
\* other login, unknown username and wrong password alike, is answered with one
\* and the same response (401, one message) and changes no session.
C21_LoginOnlyWithMatchingPassword ==
    [][resp'.op = "login" =>
        \A c \in {resp'.c}, u \in UsernameInputs, p \in PasswordInputs :
            Login(c, u, p) =>
                IF matching(u, p) # {}
                THEN /\ resp'.status = 200
                     /\ session'[c].user \in matching(u, p)
                     /\ resp'.body.id = session'[c].user
                ELSE /\ session' = session
                     /\ resp' = [c |-> c, op |-> "login", id |-> 0, status |-> 401,
                                 body |-> "Incorrect username or password."]
      ]_vars

\* C21 witness: a login was refused and the client has no session
C21_Witness ==
    /\ resp.op = "login" /\ resp.status = 401
    /\ session[resp.c] = NoSession

\* a code that is missing, empty or not a number
malformed(code) == code = NoCode \/ code = "" \/ (isString(code) /\ ~isNumeric(trim(code)))

\* C22 (as stated; refuted by the code): a POST /api/login-totp with a malformed
\* code is answered 422 whoever the requester is, before any authorization
\* decision.
C22_MalformedCodeIs422 ==
    [][resp'.op = "loginTotp" =>
        \A c \in {resp'.c}, code \in CodeInputs :
            (malformed(code) /\ LoginTotp(c, code)) => resp'.status = 422
      ]_vars

\* C23 (as stated; refuted by the code): a request during which a database call
\* fails is answered 503 and leaves the database as it was.
C23_FailureIs503 ==
    [][\A c \in OneClient :
        (\/ \E id \in PostIdInputs : ListCommentsFails(c, id)
         \/ \E id \in CommentIdInputs : UpdateCommentFails(c, id, "<b>hi</b>"))
        => (resp'.status = 503 /\ UNCHANGED dbVars)
      ]_vars

\* C24 (as stated; refuted by the code): every request that waits for a database
\* callback is eventually answered.
C24_EveryRequestAnswered ==
    \A c \in OneClient : (pending[c].pc # "idle") ~> (pending[c].pc = "idle")

\* C25: the comment list answered for a post is ordered by creation timestamp,
\* most recent first: of two listed comments the one with the strictly later
\* timestamp comes first, whether the requester has a session or not.
C25_ListOrderedByDate ==
    (resp.op = "listComments" /\ resp.status = 200) =>
        \A i, j \in 1 .. Len(resp.body) :
            resp.body[i].date > resp.body[j].date => i < j

\* C25 witness: the three comments of post 9, of three timestamps, were listed to
\* a requester with a session, the most recent first
C25_Witness ==
    /\ resp.op = "listComments" /\ resp.status = 200 /\ isAuthenticated(resp.c)
    /\ Len(resp.body) = 3
    /\ resp.body[1].date > resp.body[2].date /\ resp.body[2].date > resp.body[3].date

mutationOps == {"updateComment", "deleteComment", "deletePost"}

\* C26: a successful password login, whatever session it arrives on (none after a
\* logout, a standard one, an elevated one) and whoever the users are, leaves the
\* client with a session that is not elevated and answers isTotp = false; and an
\* edit or delete of a resource the requester does not own succeeds only when a
\* one-time code of the session's user was accepted after that login.
C26_LoginIsNotElevated ==
    [][/\ (resp'.op = "login" /\ resp'.status = 200)
          => /\ session'[resp'.c].method # "totp"
             /\ resp'.body.isTotp = FALSE
             /\ accepted'[resp'.c] = NoUser
       /\ ( /\ resp'.op \in mutationOps /\ resp'.status = 200
            /\ resourceOwner(resp'.op, resp'.id) # session[resp'.c].user )
          => accepted[resp'.c] = session[resp'.c].user
      ]_vars

\* C26 witness: a password login arrived on an elevated session and the session it
\* created is not elevated
C26_Witness ==
    /\ resp.op = "login" /\ resp.status = 200 /\ resp.body.isTotp = FALSE
    /\ replaced[resp.c].method = "totp"
    /\ ~elevated(resp.c)

\* C27: a POST /api/login-totp that fails (requester not an administrator, no
\* secret, code missing, malformed or wrong) leaves the session as it was: bound
\* to the same user, still logged in, not elevated if it was not, and no code
\* counts as accepted; the client may send a code again.
C27_FailedSecondFactorKeepsSession ==
    [][(resp'.op = "loginTotp" /\ resp'.status # 200)
        => /\ session' = session
           /\ accepted' = accepted
           /\ \A c \in OneClient : (isAuthenticated(c) /\ ~elevated(c)) =>
                (isAuthenticated(c) /\ ~elevated(c))'
      ]_vars

\* C27 witness: the wrong code of alberto was refused, and alberto's session is
\* still there, not elevated
C27_Witness ==
    /\ resp.op = "loginTotp" /\ resp.status = 401 /\ resp.body = "Unauthorized"
    /\ session[resp.c].user = 1 /\ ~elevated(resp.c)

\* C28: a successful edit of a comment changes the text of that comment and
\* nothing else: its owner, post and timestamp, its flags, every other comment and
\* every post are as before; and a comment without owner is edited or deleted
\* only by an elevated session.
C28_EditChangesOnlyText ==
    [][/\ (resp'.op = "updateComment" /\ resp'.status = 200)
          => LET r == commentWithId(resp'.id)
             IN  /\ \A q \in comments : q.id # r.id => q \in comments'
                 /\ \A q \in comments' :
                        \/ q \in comments
                        \/ q \in {[r EXCEPT !.text = t] : t \in {sanitize(x) : x \in TextInputs}}
                 /\ Cardinality(comments') = Cardinality(comments)
                 /\ UNCHANGED <<posts, flags>>
       /\ ( /\ resp'.op \in {"updateComment", "deleteComment"} /\ resp'.status = 200
            /\ commentWithId(resp'.id).userId = NoUser )
          => elevated(resp'.c)
      ]_vars

\* C28 witness: an elevated session has edited the comment without owner; its
\* timestamp and its flag are the ones it had
C28_Witness ==
    /\ resp.op = "updateComment" /\ resp.id = 27 /\ resp.status = 200
    /\ \E r \in comments : /\ r.id = 27 /\ r.userId = NoUser /\ r.text # "seed"
                           /\ r.date = -1 /\ r.postId = 9
    /\ BagIn([userId |-> 5, commentId |-> 27], flags)

\* C29: of the delete requests for one comment (or one post) that are in flight
\* together, each of a requester permitted to delete it, the one whose DELETE runs
\* first is answered 200 and removes the resource and its dependents; every later
\* one finds nothing to delete, is answered 403 and changes nothing. A resource
\* whose delete was answered 200 is gone.
C29_InterleavedDeletesOneSuccess ==
    /\ [](resp.op \in {"deleteComment", "deletePost"} /\ resp.status = 200
            => ~resourceExists(resp.op, resp.id))
    /\ [][\A c \in Clients :
            (pending[c].pc \in {"deleteComment", "deletePost"} /\ pending'[c].pc = "idle")
            => LET op == pending[c].pc
                   id == pending[c].id
               IN  /\ resp'.c = c /\ resp'.op = op /\ resp'.id = id
                   /\ IF /\ resourceExists(op, id)
                         /\ \/ pending[c].isAdminWithTotp
                            \/ resourceOwner(op, id) = pending[c].userId
                      THEN /\ resp'.status = 200
                           /\ IF op = "deleteComment"
                              THEN /\ comments' = comments \ {commentWithId(id)}
                                   /\ posts' = posts
                              ELSE /\ posts' = posts \ {postWithId(id)}
                                   /\ comments' = {q \in comments : q.postId # id}
                           /\ flags' = flagRows({f \in DOMAIN flags :
                                  \E q \in comments' : q.id = f.commentId})
                      ELSE /\ resp'.status = 403
                           /\ contentUnchanged
      ]_vars

\* C29 witness: the delete of comment 25 by one client was answered 200 while the
\* delete of the same comment by the other client, permitted too, waits for its
\* DELETE statement
C29_Witness ==
    /\ resp.op = "deleteComment" /\ resp.id = 25 /\ resp.status = 200
    /\ pending[resp.c].pc = "idle"
    /\ \E d \in Clients \ {resp.c} :
          /\ pending[d].pc = "deleteComment" /\ pending[d].id = 25
          /\ pending[d].isAdminWithTotp \/ pending[d].userId = 1

\* C30 (as stated; refuted by the code): whenever the application shows a
\* logged-in user with loggedInTotp true and the server has a session for the
\* client, that session is the session of the displayed user and is elevated.
C30_TotpFlagImpliesElevated ==
    (app.loggedIn /\ app.loggedInTotp /\ isAuthenticated("c1"))
        => (session["c1"].user = app.user /\ elevated("c1"))

====
